---- MODULE Spec2Model ----
(***************************************************************************)
(* StateKit: a content-addressed store of filesystem layers.               *)
(*   Store     index.json (head, layers, tags) and the blob directory      *)
(*   Snapshot  walk / fingerprint / pack / restore / rebuild               *)
(*   StateKit  run, exec, checkout, rebuild, reset, tag, _resolve          *)
(* Files are flat (no sub-directories); a file is its content and the      *)
(* whole-second mtime the tar header records.  A SHA-256 digest is an      *)
(* injective fixed-length digit string over the hashed bytes.              *)
(***************************************************************************)
EXTENDS Naturals, Sequences, FiniteSets, TLC

\* ---------------------------------------------------------------- bounds
\* the index is an append-only list; runs that would append are cut here
MaxLayers == 3
\* the same for the histories that only run, exec and rebuild
MaxChain == 4
\* instructions in one batch() call
MaxBatch == 4
\* blobs left behind by failed index writes; further such failures are cut
MaxOrphans == 1

\* ------------------------------------------------------------- universe
Paths == {"a", "b"}
\* Snapshot._walk returns the entries sorted by path
PathOrder == <<"a", "b">>
Contents == {1, 2}
NC == Cardinality(Contents)
\* whole seconds, as stored in a tar header
Times == {0, 1}

\* null / undefined / "" : everything the code tests with `!x`
Null == <<>>

\* a workdir entry: 0 when the path is absent, else content and mtime
Absent == 0
File(c, t) == c + NC * t
ContentOf(f) == ((f - 1) % NC) + 1
Files == {Absent} \cup {File(c, t) : c \in Contents, t \in Times}
EmptyDir == [p \in Paths |-> Absent]
IsEmptyDir(w) == \A p \in Paths : w[p] = Absent

\* the instruction strings the callers pass to run / exec
Instructions ==
  {"echo 1 > a", "echo 2 > a", "echo 1 > b", "rm -f a", "true",
   "echo 2 > a; exit 1"}
\* two more: the same effect as "echo 1 > b" under another spelling, and a
\* plain failure
MoreInstructions == {"echo 1 >b", "exit 1"}
\* and one that empties the workdir
Wipe == "rm -f a b"

\* tag names; "1" and "10" are also hash prefixes
TagNames == {<<9>>, <<1>>}

VARIABLES
  head,      \* index.json: head
  layers,    \* index.json: layers, in append order
  tags,      \* index.json: tags (name -> hash)
  blobs,     \* blobs/<hash> -> archive bytes
  workdir,   \* the working directory
  inState,   \* configuration: workdir lies under stateDir
  now,       \* wall clock, whole seconds
  ret,       \* outcome of the last operation
  captured,  \* history: workdir as it was when layers[i] was committed
  mode,      \* history: "pure" | "runs" | "any" (see Run)
  batch,     \* the batch() call in progress or last finished
  before,    \* history: the layer list the last reset() removed
  kits,      \* the StateKit instances on this stateDir and their run() calls
  currentLayer, \* SequentialMachineAdapter.currentLayer
  tmp        \* temporary tar files and scratch directories under stateDir

idx == <<head, layers, tags, blobs>>
vars == <<head, layers, tags, blobs, workdir, inState, now, ret, captured, mode,
          batch, before, kits, currentLayer, tmp>>

\* ======================================================================
\* sh -c <instruction> in the workdir: exit status and resulting workdir
\* ======================================================================
Sh(cmd, w, t) ==
  CASE cmd = "echo 1 > a" -> [ok |-> TRUE, w |-> [w EXCEPT !["a"] = File(1, t)]]
    [] cmd = "echo 2 > a" -> [ok |-> TRUE, w |-> [w EXCEPT !["a"] = File(2, t)]]
    [] cmd = "echo 1 > b" -> [ok |-> TRUE, w |-> [w EXCEPT !["b"] = File(1, t)]]
    [] cmd = "echo 1 >b"  -> [ok |-> TRUE, w |-> [w EXCEPT !["b"] = File(1, t)]]
    [] cmd = "rm -f a"    -> [ok |-> TRUE, w |-> [w EXCEPT !["a"] = Absent]]
    [] cmd = "rm -f a b"  -> [ok |-> TRUE, w |-> EmptyDir]
    [] cmd = "true"       -> [ok |-> TRUE, w |-> w]
    [] cmd = "exit 1"     -> [ok |-> FALSE, w |-> w]
    [] cmd = "echo 2 > a; exit 1" ->
                             [ok |-> FALSE, w |-> [w EXCEPT !["a"] = File(2, t)]]

\* a promise that resolves whatever the exit code
ExecResolves_AnyCode(cmd, w, t) == TRUE

\* StateKit._exec: the promise resolves on exit code 0 and rejects otherwise
ExecResolves(cmd, w, t) == Sh(cmd, w, t).ok

\* ======================================================================
\* Snapshot: fingerprints, archives, digests
\* ======================================================================
\* Snapshot._state: per path the content digest (mode is carried along but
\* never compared); the mtime is not part of it
Fingerprint(f) == IF f = Absent THEN Absent ELSE ContentOf(f)
State(w) == [p \in Paths |-> Fingerprint(w[p])]

\* Snapshot._pack: tar of the named paths, each with content and mtime
Pack(w, files) == [p \in Paths |-> IF p \in files THEN w[p] ELSE Absent]

\* JSON.stringify(deleted) appended to the archive before hashing;
\* 0 stands for "nothing appended" (capture)
DeletedCode(deleted) ==
  1 + (IF "a" \in deleted THEN 1 ELSE 0) + (IF "b" \in deleted THEN 2 ELSE 0)

\* Snapshot._hash: SHA-256 hex of the bytes; injective, fixed length
Hash(buffer, suffix) == <<buffer[PathOrder[1]], buffer[PathOrder[2]], suffix>>
HashLen == Len(Hash(EmptyDir, 0))

IsPrefix(s, t) == Len(s) <= Len(t) /\ SubSeq(t, 1, Len(s)) = s

\* ======================================================================
\* Store
\* ======================================================================
\* Store.key: sha256(JSON.stringify({instruction, parent}))
Key(instruction, parent) == <<instruction, parent>>

\* Store.get: the blob, or null when the file does not exist
Get(bl, hash) == IF hash \in DOMAIN bl THEN bl[hash] ELSE Null

\* Store.put
Put(bl, hash, data) == [h \in DOMAIN bl \cup {hash} |-> IF h = hash THEN data ELSE bl[h]]

\* a lookup that compares the wanted parent with the record's own hash
Find_ParentAsHash(ls, instruction, parent) ==
  LET hits == {i \in 1..Len(ls) :
                 Key(ls[i].instruction, ls[i].hash) = Key(instruction, parent)}
  IN IF hits = {} THEN Null
     ELSE ls[CHOOSE i \in hits : \A j \in hits : i <= j]

\* Store.find: first layer in append order with the same cache key, or Null
Find(ls, instruction, parent) ==
  LET hits == {i \in 1..Len(ls) :
                 Key(ls[i].instruction, ls[i].parent) = Key(instruction, parent)}
  IN IF hits = {} THEN Null
     ELSE ls[CHOOSE i \in hits : \A j \in hits : i <= j]

\* new Map(index.layers.map(l => [l.hash, l])).get(hash): the LAST record
\* with that hash wins; 0 when there is none
ByHash(ls, hash) ==
  LET hits == {i \in 1..Len(ls) : ls[i].hash = hash}
  IN IF hits = {} THEN 0 ELSE CHOOSE i \in hits : \A j \in hits : j <= i

\* the parent walk of Store.ancestry / Snapshot._ancestryTo, cut after
\* `fuel` records; result.unshift(layer) builds the list root first
RECURSIVE Walk(_, _, _)
Walk(ls, current, fuel) ==
  IF current = Null \/ fuel = 0 \/ ByHash(ls, current) = 0 THEN <<>>
  ELSE LET layer == ls[ByHash(ls, current)]
       IN Append(Walk(ls, layer.parent, fuel - 1), layer)

\* the while loop never ends: more records walked than there are hashes
RECURSIVE Loops(_, _, _)
Loops(ls, current, fuel) ==
  IF current = Null \/ ByHash(ls, current) = 0 THEN FALSE
  ELSE IF fuel = 0 THEN TRUE
  ELSE Loops(ls, ls[ByHash(ls, current)].parent, fuel - 1)

\* Snapshot._ancestryTo(hash)
AncestryTo(ls, hash) == Walk(ls, hash, Len(ls))
AncestryToLoops(ls, hash) == Loops(ls, hash, Len(ls))

\* Store.ancestry()
Ancestry(ls, hd) == Walk(ls, hd, Len(ls))
AncestryLoops(ls, hd) == Loops(ls, hd, Len(ls))

\* ======================================================================
\* Snapshot: restore, rebuild, reconstruction, capture, diff
\* ======================================================================
\* tar.extract over a directory: archived paths are (over)written with the
\* archived content and mtime, nothing is removed
Extract(w, data) == [p \in Paths |-> IF data[p] # Absent THEN data[p] ELSE w[p]]

\* Snapshot.restore
Restore(bl, w, hash) ==
  LET data == Get(bl, hash)
  IN IF data = Null \/ IsEmptyDir(data) THEN w ELSE Extract(w, data)

RECURSIVE RestoreAll(_, _, _)
RestoreAll(bl, w, chain) ==
  IF chain = <<>> THEN w
  ELSE RestoreAll(bl, Restore(bl, w, Head(chain).hash), Tail(chain))

\* Snapshot.rebuild: rm -rf workdir, mkdir, restore every layer in order
Rebuild(bl, chain) == RestoreAll(bl, EmptyDir, chain)

\* Snapshot._stateFromLayer: the chain root..hash extracted into a scratch
\* directory, then _state of it (defined when _ancestryTo returns)
StateFromLayer(ls, bl, hash) == State(Rebuild(bl, AncestryTo(ls, hash)))

\* Snapshot.capture: Null for an empty workdir, else every entry packed
Capture(w) ==
  IF IsEmptyDir(w) THEN Null
  ELSE LET buffer == Pack(w, {p \in Paths : w[p] # Absent})
       IN [hash |-> Hash(buffer, 0), buffer |-> buffer]

\* Snapshot.diff against the reconstructed state of baseHash
Diff(ls, bl, w, baseHash) ==
  LET current == State(w)
      base    == StateFromLayer(ls, bl, baseHash)
      changed == {p \in Paths : current[p] # Absent /\ current[p] # base[p]}
      deleted == {p \in Paths : base[p] # Absent /\ current[p] = Absent}
      buffer  == Pack(w, changed)
  IN IF changed = {} /\ deleted = {} THEN Null
     ELSE [hash |-> Hash(buffer, DeletedCode(deleted)), buffer |-> buffer]

\* ======================================================================
\* StateKit._resolve
\* ======================================================================
\* a resolution that tries the hash prefixes before the tag names
Resolve_PrefixFirst(ls, tg, ref) ==
  IF ref = Null THEN Null
  ELSE LET byShort == {i \in 1..Len(ls) : IsPrefix(ref, ls[i].hash)}
       IN IF byShort # {} THEN ls[CHOOSE i \in byShort : \A j \in byShort : i <= j].hash
          ELSE IF ref \in DOMAIN tg THEN tg[ref]
          ELSE <<99>>

\* the thrown Error("Cannot resolve ref"): a value that is no hash
Unresolved == <<99>>

\* a resolution that knows tag names and whole hashes only
Resolve_ExactOnly(ls, tg, ref) ==
  IF ref = Null THEN Null
  ELSE IF ref \in DOMAIN tg THEN tg[ref]
  ELSE LET byFull == {i \in 1..Len(ls) : ls[i].hash = ref}
       IN IF byFull # {} THEN ls[CHOOSE i \in byFull : \A j \in byFull : i <= j].hash
          ELSE Unresolved

Resolve(ls, tg, ref) ==
  IF ref = Null THEN Null
  ELSE IF ref \in DOMAIN tg THEN tg[ref]
  ELSE LET byShort == {i \in 1..Len(ls) : IsPrefix(ref, ls[i].hash)}
           byFull  == {i \in 1..Len(ls) : ls[i].hash = ref}
       IN IF byShort # {} THEN ls[CHOOSE i \in byShort : \A j \in byShort : i <= j].hash
          ELSE IF byFull # {} THEN ls[CHOOSE i \in byFull : \A j \in byFull : i <= j].hash
          ELSE Unresolved

\* ======================================================================
\* outcome records
\* ======================================================================
\* what the last call returned or threw:
\*   status  "ok" or the error kind, "diverged" when the call never returns
\*   hash / cached / empty   the fields of run's result
\*   spawned a subprocess was started
\*   n       rebuild's count
\*   report  the lists status and diff return
Ret(op, status, hash, cached, empty, spawned, n) ==
  [op |-> op, status |-> status, hash |-> hash,
   cached |-> cached, empty |-> empty, spawned |-> spawned, n |-> n,
   report |-> Null]

NoRet == Ret("new", "ok", Null, FALSE, FALSE, FALSE, 0)

\* nothing was reset yet; `pure` says that the removed list had been built
\* on a fresh store by runs that each created a layer
NoBefore == [pure |-> FALSE, layers |-> <<>>]

\* a batch() call: its argument, the results pushed so far, and where it is:
\* "idle" (never called), "running" (awaiting a run), "returned", "failed"
\* (a run threw), "diverged" (a run never returns)
NoBatch == [list |-> <<>>, results |-> <<>>, status |-> "idle"]
Threw(op, status, spawned) == Ret(op, status, Null, FALSE, FALSE, spawned, 0)

\* the StateKit instances that may be constructed on the stateDir
Kits == {1, 2}

\* an instance holds no index state: only where its run() call stands.
\* pc: "none" (not constructed), "idle", "exec" (awaiting _exec), "restore"
\* (awaiting the restore of a cache hit), "snap" (awaiting diff / capture),
\* "put" (before store.put and the index read of commit), "save" (between
\* the index read and the index write of commit); cmd, parent, cached and
\* result are the locals of run, index is the local of Store.commit, kept
\* after the write; returned is the history of the hashes of the layers
\* its runs returned as new
NoCall == [pc |-> "none", cmd |-> "", parent |-> Null, cached |-> Null,
           result |-> Null, index |-> Null, returned |-> {}]
NoKits == [k \in Kits |-> IF k = 1 THEN [NoCall EXCEPT !.pc = "idle"] ELSE NoCall]

\* ======================================================================
\* initial state: new StateKit(opts) over an empty stateDir
\* ======================================================================
\* the store and the workdir, for either place of the workdir
InitStore ==
  /\ head = Null
  /\ layers = <<>>
  /\ tags = <<>>
  /\ blobs = <<>>
  /\ workdir = EmptyDir
  /\ now = 0
  /\ ret = NoRet
  /\ captured = <<>>
  /\ mode = "pure"
  /\ batch = NoBatch
  /\ before = NoBefore
  /\ kits = NoKits
  /\ currentLayer = Null
  /\ tmp = {}

\* the default configuration: workdir = <stateDir>/work
Init == InitStore /\ inState = TRUE

\* opts.workdir given: under stateDir or somewhere else
InitAnyWorkdir == InitStore /\ inState \in BOOLEAN

\* ======================================================================
\* StateKit.run
\* ======================================================================
\* a mutant of Commit: a record with the same hash is replaced, not kept
Commit_ReplacesSameHash(hash, instruction, parent) ==
  /\ layers' = Append(SelectSeq(layers, LAMBDA l : l.hash # hash),
                      [hash |-> hash, instruction |-> instruction,
                       parent |-> parent])
  /\ head' = hash
  /\ UNCHANGED tags

\* Store.commit: push the record, move head, save
Commit(hash, instruction, parent) ==
  /\ layers' = Append(layers, [hash |-> hash, instruction |-> instruction,
                               parent |-> parent])
  /\ head' = hash
  /\ UNCHANGED tags

\* a cache hit that also moves head to the layer it restored
RunCached_MovesHead(cmd, cached) ==
  /\ workdir' = Restore(blobs, workdir, cached.hash)
  /\ head' = cached.hash
  /\ ret' = Ret("run", "ok", cached.hash, TRUE, FALSE, FALSE, 0)
  /\ mode' = IF mode = "any" THEN "any" ELSE "runs"
  /\ UNCHANGED <<layers, tags, blobs, captured>>

\* cache hit: restore the layer's blob over the workdir and return
RunCached(cmd, cached) ==
  /\ workdir' = Restore(blobs, workdir, cached.hash)
  /\ ret' = Ret("run", "ok", cached.hash, TRUE, FALSE, FALSE, 0)
  /\ mode' = IF mode = "any" THEN "any" ELSE "runs"
  /\ UNCHANGED <<head, layers, tags, blobs, captured>>

\* I/O failures a run can meet after the subprocess succeeded
Faults == {"none", "put", "commit"}

\* a mutant of RunMiss: the index is written before the blob, and the
\* failure between the two leaves the record without its blob
RunMiss_CommitsFirst(cmd, fault) ==
  LET parent == head
      sh     == Sh(cmd, workdir, now)
  IN
  /\ workdir' = sh.w
  /\ IF ~ExecResolves(cmd, workdir, now)
     THEN /\ fault = "none"
          /\ ret' = Threw("run", "CommandFailed", TRUE)
          /\ mode' = "any"
          /\ UNCHANGED <<head, layers, tags, blobs, captured>>
     ELSE IF parent # Null /\ AncestryToLoops(layers, parent)
     THEN /\ fault = "none"
          /\ ret' = Threw("run", "diverged", TRUE)
          /\ mode' = "any"
          /\ UNCHANGED <<head, layers, tags, blobs, captured>>
     ELSE LET result == IF parent # Null
                        THEN Diff(layers, blobs, sh.w, parent)
                        ELSE Capture(sh.w)
          IN IF result = Null
             THEN /\ fault = "none"
                  /\ ret' = Ret("run", "ok", parent, FALSE, TRUE, TRUE, 0)
                  /\ mode' = IF mode = "any" THEN "any" ELSE "runs"
                  /\ UNCHANGED <<head, layers, tags, blobs, captured>>
             ELSE CASE fault = "put" ->
                       /\ ret' = Threw("run", "IoError", TRUE)
                       /\ mode' = "any"
                       /\ UNCHANGED <<head, layers, tags, blobs, captured>>
                    [] fault = "commit" ->
                       /\ Commit(result.hash, cmd, parent)
                       /\ captured' = Append(captured, sh.w)
                       /\ ret' = Threw("run", "IoError", TRUE)
                       /\ mode' = "any"
                       /\ UNCHANGED blobs
                    [] fault = "none" ->
                       /\ blobs' = Put(blobs, result.hash, result.buffer)
                       /\ Commit(result.hash, cmd, parent)
                       /\ captured' = Append(captured, sh.w)
                       /\ ret' = Ret("run", "ok", result.hash,
                                     FALSE, FALSE, TRUE, 0)
                       /\ mode' = mode

\* cache miss: _exec, then diff / capture, then put and commit
RunMiss(cmd, fault) ==
  LET parent == head
      sh     == Sh(cmd, workdir, now)
  IN
  /\ workdir' = sh.w
  /\ IF ~ExecResolves(cmd, workdir, now)
     THEN /\ fault = "none"
          /\ ret' = Threw("run", "CommandFailed", TRUE)
          /\ mode' = "any"
          /\ UNCHANGED <<head, layers, tags, blobs, captured>>
     ELSE IF parent # Null /\ AncestryToLoops(layers, parent)
     THEN /\ fault = "none"
          /\ ret' = Threw("run", "diverged", TRUE)
          /\ mode' = "any"
          /\ UNCHANGED <<head, layers, tags, blobs, captured>>
     ELSE LET result == IF parent # Null
                        THEN Diff(layers, blobs, sh.w, parent)
                        ELSE Capture(sh.w)
          IN IF result = Null
             THEN /\ fault = "none"
                  /\ ret' = Ret("run", "ok", parent, FALSE, TRUE, TRUE, 0)
                  /\ mode' = IF mode = "any" THEN "any" ELSE "runs"
                  /\ UNCHANGED <<head, layers, tags, blobs, captured>>
             ELSE CASE fault = "put" ->
                       /\ ret' = Threw("run", "IoError", TRUE)
                       /\ mode' = "any"
                       /\ UNCHANGED <<head, layers, tags, blobs, captured>>
                    [] fault = "commit" ->
                       /\ blobs' = Put(blobs, result.hash, result.buffer)
                       /\ ret' = Threw("run", "IoError", TRUE)
                       /\ mode' = "any"
                       /\ UNCHANGED <<head, layers, tags, captured>>
                    [] fault = "none" ->
                       /\ blobs' = Put(blobs, result.hash, result.buffer)
                       /\ Commit(result.hash, cmd, parent)
                       /\ captured' = Append(captured, sh.w)
                       /\ ret' = Ret("run", "ok", result.hash,
                                     FALSE, FALSE, TRUE, 0)
                       /\ mode' = mode

Run(cmd, fault) ==
  /\ LET cached == Find(layers, cmd, head)
     IN IF cached # Null
        THEN fault = "none" /\ RunCached(cmd, cached)
        ELSE RunMiss(cmd, fault)
  /\ UNCHANGED <<inState, now, kits, tmp>>

\* ======================================================================
\* StateKit.batch
\* ======================================================================
\* for (const instruction of instructions) results.push(await this.run(..))
\* the loop after the run of list[Len(results) + 1] has settled (ret'):
\* push and go on, return after the last one, or let the rejection through
BatchAfterRun(b) ==
  IF ret'.status = "ok"
  THEN [b EXCEPT !.results = Append(b.results, ret'),
                 !.status = IF Len(b.results) + 1 = Len(b.list)
                            THEN "returned" ELSE "running"]
  ELSE IF ret'.status = "diverged"
  THEN [b EXCEPT !.status = "diverged"]
  ELSE [b EXCEPT !.status = "failed"]

\* the call: an empty list returns at once, else the first run starts
Batch(list) ==
  /\ batch.status # "running"
  /\ IF list = <<>>
     THEN /\ batch' = [list |-> list, results |-> <<>>, status |-> "returned"]
          /\ UNCHANGED <<head, layers, tags, blobs, workdir, inState, now,
                         ret, captured, mode, before, kits, currentLayer, tmp>>
     ELSE /\ Run(list[1], "none")
          /\ UNCHANGED <<before, currentLayer>>
          /\ batch' = BatchAfterRun([list |-> list, results |-> <<>>,
                                      status |-> "running"])

\* the next turn of the loop
BatchNext ==
  /\ batch.status = "running"
  /\ Run(batch.list[Len(batch.results) + 1], "none")
  /\ batch' = BatchAfterRun(batch)
  /\ UNCHANGED <<before, currentLayer>>

\* ======================================================================
\* StateKit.exec
\* ======================================================================
\* an exec that forgets the head it ran on
Exec_DropsHead(cmd) ==
  LET sh == Sh(cmd, workdir, now)
  IN /\ workdir' = sh.w
     /\ head' = Null
     /\ ret' = IF ExecResolves(cmd, workdir, now) THEN Ret("exec", "ok", Null, FALSE, FALSE, TRUE, 0)
               ELSE Threw("exec", "CommandFailed", TRUE)
     /\ mode' = "any"
     /\ UNCHANGED <<layers, tags, blobs, inState, now, captured, batch, before,
                    kits, currentLayer, tmp>>

\* await this._exec(cmd): the subprocess and nothing else
Exec(cmd) ==
  LET sh == Sh(cmd, workdir, now)
  IN /\ workdir' = sh.w
     /\ ret' = IF ExecResolves(cmd, workdir, now) THEN Ret("exec", "ok", Null, FALSE, FALSE, TRUE, 0)
               ELSE Threw("exec", "CommandFailed", TRUE)
     /\ mode' = "any"
     /\ UNCHANGED <<head, layers, tags, blobs, inState, now, captured, batch, before,
                    kits, currentLayer, tmp>>

\* ======================================================================
\* StateKit.checkout
\* ======================================================================
Checkout(ref) ==
  LET hash == Resolve(layers, tags, ref)
  IN
  /\ mode' = "any"
  /\ UNCHANGED <<layers, tags, blobs, inState, now, captured, batch, before,
                 kits, tmp>>
  /\ IF hash = Unresolved
     THEN /\ ret' = Threw("checkout", "UnresolvedRef", FALSE)
          /\ UNCHANGED <<head, workdir>>
     ELSE IF AncestryLoops(layers, head)
     THEN /\ ret' = Threw("checkout", "diverged", FALSE)
          /\ UNCHANGED <<head, workdir>>
     ELSE LET chain == Ancestry(layers, head)
              hits  == {i \in 1..Len(chain) : chain[i].hash = hash}
          IN IF hits = {}
             THEN /\ ret' = Threw("checkout", "LayerNotOnChain", FALSE)
                  /\ UNCHANGED <<head, workdir>>
             ELSE LET i == CHOOSE i \in hits : \A j \in hits : i <= j
                  IN /\ workdir' = Rebuild(blobs, SubSeq(chain, 1, i))
                     /\ head' = hash
                     /\ ret' = Ret("checkout", "ok", hash,
                                   FALSE, FALSE, FALSE, 0)

\* ======================================================================
\* StateKit.rebuild
\* ======================================================================
\* a rebuild that restores the chain into a workdir it finds empty and only
\* empties one it finds in use
RebuildWorkdir_EmptiesFirst ==
  /\ mode' = "any"
  /\ UNCHANGED <<head, layers, tags, blobs, inState, now, captured, batch, before,
                 kits, tmp>>
  /\ IF AncestryLoops(layers, head)
     THEN /\ ret' = Threw("rebuild", "diverged", FALSE)
          /\ UNCHANGED workdir
     ELSE LET chain == Ancestry(layers, head)
          IN /\ workdir' = IF IsEmptyDir(workdir) THEN Rebuild(blobs, chain)
                           ELSE EmptyDir
             /\ ret' = Ret("rebuild", "ok", Null, FALSE, FALSE, FALSE,
                           Len(chain))

\* layers = store.ancestry(); snapshot.rebuild(workdir, layers); the count
RebuildWorkdir ==
  /\ mode' = "any"
  /\ UNCHANGED <<head, layers, tags, blobs, inState, now, captured, batch, before,
                 kits, tmp>>
  /\ IF AncestryLoops(layers, head)
     THEN /\ ret' = Threw("rebuild", "diverged", FALSE)
          /\ UNCHANGED workdir
     ELSE LET chain == Ancestry(layers, head)
          IN /\ workdir' = Rebuild(blobs, chain)
             /\ ret' = Ret("rebuild", "ok", Null, FALSE, FALSE, FALSE,
                           Len(chain))

\* ======================================================================
\* StateKit.reset
\* ======================================================================
\* a mutant of Reset: the tag table outlives the layers
Reset_KeepsTags ==
  /\ head' = Null
  /\ layers' = <<>>
  /\ UNCHANGED tags
  /\ blobs' = <<>>
  /\ workdir' = IF inState THEN EmptyDir ELSE workdir
  /\ captured' = <<>>
  /\ ret' = Ret("reset", "ok", Null, FALSE, FALSE, FALSE, 0)
  /\ mode' = IF inState \/ IsEmptyDir(workdir) THEN "pure" ELSE "any"
  /\ before' = [pure |-> mode = "pure", layers |-> layers]
  /\ tmp' = {}
  /\ UNCHANGED <<inState, now, batch, kits>>

\* rm -rf stateDir, new Store, mkdir -p workdir
Reset ==
  /\ head' = Null
  /\ layers' = <<>>
  /\ tags' = <<>>
  /\ blobs' = <<>>
  /\ workdir' = IF inState THEN EmptyDir ELSE workdir
  /\ captured' = <<>>
  /\ ret' = Ret("reset", "ok", Null, FALSE, FALSE, FALSE, 0)
  /\ mode' = IF inState \/ IsEmptyDir(workdir) THEN "pure" ELSE "any"
  /\ before' = [pure |-> mode = "pure", layers |-> layers]
  /\ tmp' = {}
  /\ UNCHANGED <<inState, now, batch, kits>>

\* ======================================================================
\* StateKit.status
\* ======================================================================
\* the two loops of status over workState and headState
StatusReport(headState, workState) ==
  LET added    == {p \in Paths : workState[p] # Absent /\ headState[p] = Absent}
      modified == {p \in Paths : /\ workState[p] # Absent /\ headState[p] # Absent
                                 /\ headState[p] # workState[p]}
      deleted  == {p \in Paths : headState[p] # Absent /\ workState[p] = Absent}
  IN [added |-> added, modified |-> modified, deleted |-> deleted,
      clean |-> added = {} /\ modified = {} /\ deleted = {}]

Status ==
  /\ mode' = "any"
  /\ UNCHANGED <<head, layers, tags, blobs, workdir, inState, now, captured,
                 batch, before,
                 kits, currentLayer, tmp>>
  /\ IF head # Null /\ AncestryToLoops(layers, head)
     THEN ret' = Threw("status", "diverged", FALSE)
     ELSE LET headState == IF head # Null THEN StateFromLayer(layers, blobs, head)
                           ELSE State(EmptyDir)
              workState == State(workdir)
          IN ret' = [Ret("status", "ok", Null, FALSE, FALSE, FALSE, 0)
                       EXCEPT !.report = StatusReport(headState, workState)]

\* ======================================================================
\* StateKit.diff
\* ======================================================================
\* the two loops of diff over toState and fromState
DiffReport(fromState, toState) ==
  [added    |-> {p \in Paths : toState[p] # Absent /\ fromState[p] = Absent},
   modified |-> {p \in Paths : /\ toState[p] # Absent /\ fromState[p] # Absent
                               /\ fromState[p] # toState[p]},
   deleted  |-> {p \in Paths : fromState[p] # Absent /\ toState[p] = Absent}]

DiffLayers(fromRef, toRef) ==
  LET fromHash == IF fromRef # Null THEN Resolve(layers, tags, fromRef) ELSE Null
      toHash   == IF toRef # Null THEN Resolve(layers, tags, toRef) ELSE head
  IN
  /\ mode' = "any"
  /\ UNCHANGED <<head, layers, tags, blobs, workdir, inState, now, captured,
                 batch, before,
                 kits, currentLayer, tmp>>
  /\ IF fromHash = Unresolved \/ toHash = Unresolved
     THEN ret' = Threw("diff", "UnresolvedRef", FALSE)
     ELSE IF \/ fromHash # Null /\ AncestryToLoops(layers, fromHash)
             \/ toHash # Null /\ AncestryToLoops(layers, toHash)
     THEN ret' = Threw("diff", "diverged", FALSE)
     ELSE LET fromState == IF fromHash # Null
                           THEN StateFromLayer(layers, blobs, fromHash)
                           ELSE State(EmptyDir)
              toState   == IF toHash # Null
                           THEN StateFromLayer(layers, blobs, toHash)
                           ELSE State(EmptyDir)
          IN ret' = [Ret("diff", "ok", Null, FALSE, FALSE, FALSE, 0)
                       EXCEPT !.report = DiffReport(fromState, toState)]

\* ======================================================================
\* StateKit.inspect
\* ======================================================================
\* layers.find(l => l.hash === hash): the first record with the hash
FirstByHash(ls, hash) ==
  LET hits == {i \in 1..Len(ls) : ls[i].hash = hash}
  IN IF hits = {} THEN 0 ELSE CHOOSE i \in hits : \A j \in hits : i <= j

\* what inspect(ref) returns; size counts the entries of the stored archive
Inspect(ls, tg, bl, ref) ==
  LET hash == Resolve(ls, tg, ref)
  IN IF hash = Unresolved THEN [status |-> "UnresolvedRef"]
     ELSE IF FirstByHash(ls, hash) = 0 THEN [status |-> "LayerNotFound"]
     ELSE LET layer == ls[FirstByHash(ls, hash)]
              data  == Get(bl, hash)
          IN [status |-> "ok", hash |-> layer.hash,
              instruction |-> layer.instruction, parent |-> layer.parent,
              size |-> IF data = Null THEN 0
                       ELSE Cardinality({p \in Paths : data[p] # Absent})]

\* ======================================================================
\* temporary files under stateDir, and tar.extract throwing
\* ======================================================================
\* .tmp-<ms>.tar, .tmp-<ms>-<hash8>.tar and .tmp-state-<ms>
TarFile(t, hash) == [kind |-> "tar", time |-> t, hash |-> hash]
ScratchDir(t) == [kind |-> "dir", time |-> t, hash |-> Null]

\* the layers whose blob reaches tar.extract
Extracted(bl, chain) ==
  {n \in 1..Len(chain) : /\ Get(bl, chain[n].hash) # Null
                         /\ ~IsEmptyDir(Get(bl, chain[n].hash))}

\* a directory in which tar.extract stopped somewhere between w and done
Partial(w, done, got) == \A p \in Paths : got[p] \in {w[p], done[p]}

\* Snapshot.restore when tar.extract throws: the file is written, and the
\* finally block unlinks it
RestoreThrows(files, t) ==
  LET written == files \cup {TarFile(t, Null)}
  IN written \ {TarFile(t, Null)}

\* Snapshot._stateFromLayer when tar.extract throws on chain[n]: the layers
\* before it were written, extracted and unlinked, the file of chain[n] was
\* written, and the finally block removes the scratch directory
StateFromLayerThrows(files, t, chain, n) ==
  LET made    == files \cup {ScratchDir(t)}
      written == made \cup {TarFile(t, chain[n].hash)}
  IN written \ {ScratchDir(t)}

\* run(instruction) on a cache hit whose blob does not extract
RunCachedThrows(cmd) ==
  LET cached == Find(layers, cmd, head)
  IN /\ cached # Null
     /\ Extracted(blobs, <<cached>>) # {}
     /\ \E got \in [Paths -> Files \cup {Absent}] :
          /\ Partial(workdir, Restore(blobs, workdir, cached.hash), got)
          /\ workdir' = got
     /\ tmp' = RestoreThrows(tmp, now)
     /\ ret' = Threw("run", "ExtractFailed", FALSE)
     /\ mode' = "any"
     /\ UNCHANGED <<head, layers, tags, blobs, inState, now, captured, batch,
                    before, kits, currentLayer>>

\* checkout(ref) when the blob of the n-th layer of the subset does not
\* extract: the workdir was emptied and holds the layers before it
CheckoutThrows(ref, n) ==
  LET hash == Resolve(layers, tags, ref)
  IN /\ hash # Unresolved
     /\ ~AncestryLoops(layers, head)
     /\ LET chain == Ancestry(layers, head)
            hits  == {i \in 1..Len(chain) : chain[i].hash = hash}
        IN /\ hits # {}
           /\ LET i == CHOOSE i \in hits : \A j \in hits : i <= j
              IN /\ n \in Extracted(blobs, SubSeq(chain, 1, i))
                 /\ \E got \in [Paths -> Files \cup {Absent}] :
                      /\ Partial(Rebuild(blobs, SubSeq(chain, 1, n - 1)),
                                 Rebuild(blobs, SubSeq(chain, 1, n)), got)
                      /\ workdir' = got
     /\ tmp' = RestoreThrows(tmp, now)
     /\ ret' = Threw("checkout", "ExtractFailed", FALSE)
     /\ mode' = "any"
     /\ UNCHANGED <<head, layers, tags, blobs, inState, now, captured, batch,
                    before, kits, currentLayer>>

\* status() when the blob of the n-th layer of head's chain does not
\* extract into the scratch directory
StatusThrows(n) ==
  /\ head # Null
  /\ ~AncestryToLoops(layers, head)
  /\ n \in Extracted(blobs, AncestryTo(layers, head))
  /\ tmp' = StateFromLayerThrows(tmp, now, AncestryTo(layers, head), n)
  /\ ret' = Threw("status", "ExtractFailed", FALSE)
  /\ mode' = "any"
  /\ UNCHANGED <<head, layers, tags, blobs, workdir, inState, now, captured,
                 batch, before, kits, currentLayer>>

\* ======================================================================
\* several StateKit instances on one stateDir; run() in its awaited steps
\* ======================================================================
\* a mutant of StoreIndex: an instance answers from the index object it
\* last loaded, when it has one
StoreIndex_Cached(k) ==
  IF kits[k].index # Null THEN kits[k].index
  ELSE [head |-> head, layers |-> layers, tags |-> tags]

\* Store._index of instance k: index.json is read and parsed on every call
StoreIndex(k) == [head |-> head, layers |-> layers, tags |-> tags]

\* StateKit.head and StateKit.history as instance k answers them; history
\* is Unresolved where the parent walk does not end
HeadOf(k) == StoreIndex(k).head
HistoryOf(k) ==
  IF AncestryLoops(StoreIndex(k).layers, StoreIndex(k).head) THEN Unresolved
  ELSE Ancestry(StoreIndex(k).layers, StoreIndex(k).head)

\* instance k between two calls: the locals of run are gone
Idle(k) == [NoCall EXCEPT !.pc = "idle", !.index = kits[k].index,
                          !.returned = kits[k].returned]

\* what every step of an instance leaves alone
KitFrame == UNCHANGED <<inState, now, captured, batch, before, currentLayer, tmp>>

\* new StateKit({stateDir, workdir}) on the stateDir in use
Construct(k) ==
  /\ kits[k].pc = "none"
  /\ kits' = [kits EXCEPT ![k].pc = "idle"]
  /\ UNCHANGED <<head, layers, tags, blobs, workdir, ret, mode>>
  /\ KitFrame

\* run, up to its first await: head and the cache lookup
RunBegin(k, cmd) ==
  LET parent == StoreIndex(k).head
      cached == Find(StoreIndex(k).layers, cmd, parent)
  IN /\ kits[k].pc = "idle"
     /\ kits' = [kits EXCEPT ![k].pc = IF cached # Null THEN "restore" ELSE "exec",
                             ![k].cmd = cmd,
                             ![k].parent = parent,
                             ![k].cached = cached,
                             ![k].result = Null]
     /\ UNCHANGED <<head, layers, tags, blobs, workdir, ret, mode>>
     /\ KitFrame

\* the restore of a cache hit settles and run returns
RunRestore(k) ==
  /\ kits[k].pc = "restore"
  /\ workdir' = Restore(blobs, workdir, kits[k].cached.hash)
  /\ ret' = Ret("run", "ok", kits[k].cached.hash, TRUE, FALSE, FALSE, 0)
  /\ kits' = [kits EXCEPT ![k] = Idle(k)]
  /\ mode' = "any"
  /\ UNCHANGED <<head, layers, tags, blobs>>
  /\ KitFrame

\* the subprocess runs and closes
RunExec(k) ==
  LET sh == Sh(kits[k].cmd, workdir, now)
  IN /\ kits[k].pc = "exec"
     /\ workdir' = sh.w
     /\ mode' = "any"
     /\ IF ExecResolves(kits[k].cmd, workdir, now)
        THEN /\ kits' = [kits EXCEPT ![k].pc = "snap"]
             /\ UNCHANGED ret
        ELSE /\ kits' = [kits EXCEPT ![k] = Idle(k)]
             /\ ret' = Threw("run", "CommandFailed", TRUE)
     /\ UNCHANGED <<head, layers, tags, blobs>>
     /\ KitFrame

\* diff / capture settles; with a result, store.put and the index read of
\* store.commit follow in the same turn
RunSnap(k) ==
  LET parent == kits[k].parent
      index  == StoreIndex(k)
  IN /\ kits[k].pc = "snap"
     /\ mode' = "any"
     /\ UNCHANGED <<head, layers, tags, workdir>>
     /\ KitFrame
     /\ IF parent # Null /\ AncestryToLoops(index.layers, parent)
        THEN /\ kits' = [kits EXCEPT ![k].pc = "hung"]
             /\ ret' = Threw("run", "diverged", TRUE)
             /\ UNCHANGED blobs
        ELSE LET result == IF parent # Null
                           THEN Diff(index.layers, blobs, workdir, parent)
                           ELSE Capture(workdir)
             IN IF result = Null
                THEN /\ kits' = [kits EXCEPT ![k] = Idle(k)]
                     /\ ret' = Ret("run", "ok", parent, FALSE, TRUE, TRUE, 0)
                     /\ UNCHANGED blobs
                ELSE /\ blobs' = Put(blobs, result.hash, result.buffer)
                     /\ kits' = [kits EXCEPT ![k].pc = "save",
                                             ![k].result = result,
                                             ![k].index = index]
                     /\ UNCHANGED ret

\* a mutant of RunSave: blobs that the written index does not name are
\* removed
RunSave_PrunesBlobs(k) ==
  LET index  == kits[k].index
      result == kits[k].result
      saved  == [head   |-> result.hash,
                 layers |-> Append(index.layers,
                                   [hash |-> result.hash,
                                    instruction |-> kits[k].cmd,
                                    parent |-> kits[k].parent]),
                 tags   |-> index.tags]
  IN /\ kits[k].pc = "save"
     /\ head' = saved.head
     /\ layers' = saved.layers
     /\ tags' = saved.tags
     /\ kits' = [kits EXCEPT ![k] = [Idle(k) EXCEPT
                                        !.index = saved,
                                        !.returned = @ \cup {result.hash}]]
     /\ ret' = Ret("run", "ok", result.hash, FALSE, FALSE, TRUE, 0)
     /\ mode' = "any"
     /\ blobs' = [h \in {saved.layers[i].hash : i \in 1..Len(saved.layers)}
                     \cap DOMAIN blobs |-> blobs[h]]
     /\ UNCHANGED workdir
     /\ KitFrame

\* store.commit after its index read: push on the object read, set its
\* head, write it back; run returns the new layer
RunSave(k) ==
  LET index  == kits[k].index
      result == kits[k].result
      saved  == [head   |-> result.hash,
                 layers |-> Append(index.layers,
                                   [hash |-> result.hash,
                                    instruction |-> kits[k].cmd,
                                    parent |-> kits[k].parent]),
                 tags   |-> index.tags]
  IN /\ kits[k].pc = "save"
     /\ head' = saved.head
     /\ layers' = saved.layers
     /\ tags' = saved.tags
     /\ kits' = [kits EXCEPT ![k] = [Idle(k) EXCEPT
                                        !.index = saved,
                                        !.returned = @ \cup {result.hash}]]
     /\ ret' = Ret("run", "ok", result.hash, FALSE, FALSE, TRUE, 0)
     /\ mode' = "any"
     /\ UNCHANGED <<blobs, workdir>>
     /\ KitFrame

\* ======================================================================
\* the wall clock
\* ======================================================================
\* a second passes
Tick ==
  /\ now + 1 \in Times
  /\ now' = now + 1
  /\ UNCHANGED <<head, layers, tags, blobs, workdir, inState, ret, captured,
                 mode, batch, before,
                 kits, currentLayer, tmp>>

\* ======================================================================
\* StateKit.tag
\* ======================================================================
\* a tag that binds the name to head whatever ref was given
Tag_AlwaysHead(name, ref) ==
  LET resolved == head
  IN
  /\ mode' = "any"
  /\ UNCHANGED <<head, layers, blobs, workdir, inState, now, captured, batch, before,
                 kits, tmp>>
  /\ IF resolved = Null
     THEN /\ ret' = Threw("tag", "NothingToTag", FALSE)
          /\ UNCHANGED tags
     ELSE /\ tags' = [t \in DOMAIN tags \cup {name} |->
                        IF t = name THEN resolved ELSE tags[t]]
          /\ ret' = Ret("tag", "ok", resolved, FALSE, FALSE, FALSE, 0)

\* index.tags[name] = hash ? _resolve(hash) : head, then _save
Tag(name, ref) ==
  LET resolved == IF ref # Null THEN Resolve(layers, tags, ref) ELSE head
  IN
  /\ mode' = "any"
  /\ UNCHANGED <<head, layers, blobs, workdir, inState, now, captured, batch, before,
                 kits, tmp>>
  /\ IF resolved = Unresolved
     THEN /\ ret' = Threw("tag", "UnresolvedRef", FALSE)
          /\ UNCHANGED tags
     ELSE IF resolved = Null
     THEN /\ ret' = Threw("tag", "NothingToTag", FALSE)
          /\ UNCHANGED tags
     ELSE /\ tags' = [t \in DOMAIN tags \cup {name} |->
                        IF t = name THEN resolved ELSE tags[t]]
          /\ ret' = Ret("tag", "ok", resolved, FALSE, FALSE, FALSE, 0)

\* ======================================================================
\* SequentialMachineAdapter over one StateKit
\* ======================================================================
\* names as digit tuples: 'checkpoint-' is the digit 8, so <<8, 1>> is a
\* name that starts with 'checkpoint-' and <<9>> is one that does not
CheckpointPrefix == <<8>>
\* `checkpoint-${timestamp}`: the name checkpoint() makes up without one
StampedName(t) == CheckpointPrefix \o <<7, t>>

\* initialize: mkdir -p both directories, currentLayer = kit.head()
AdapterInitialize ==
  /\ currentLayer' = head
  /\ ret' = Ret("initialize", "ok", head, FALSE, FALSE, FALSE, 0)
  /\ mode' = "any"
  /\ UNCHANGED <<head, layers, tags, blobs, workdir, inState, now, captured,
                 batch, before, kits, tmp>>

\* execute(instruction, options): kit.run, then currentLayer = result.hash
\* unless options.noCommit
AdapterExecute(instruction, noCommit) ==
  /\ Run(instruction, "none")
  /\ currentLayer' = IF ret'.status = "ok" /\ ~noCommit THEN ret'.hash
                     ELSE currentLayer
  /\ UNCHANGED <<batch, before>>

\* restore(layerRef): kit.checkout, then currentLayer = kit.head()
AdapterRestore(layerRef) ==
  /\ Checkout(layerRef)
  /\ currentLayer' = IF ret'.status = "ok" THEN head' ELSE currentLayer

\* rebuild(): kit.rebuild, then currentLayer = kit.head()
AdapterRebuild ==
  /\ RebuildWorkdir
  /\ currentLayer' = IF ret'.status = "ok" THEN head' ELSE currentLayer

\* reset(): kit.reset, then currentLayer = null
AdapterReset ==
  /\ Reset
  /\ currentLayer' = Null

\* import(exportedState): restore(exportedState.currentLayer) when there is
\* one, else nothing
AdapterImport(exportedLayer) ==
  IF exportedLayer # Null THEN AdapterRestore(exportedLayer)
  ELSE /\ ret' = Ret("import", "ok", currentLayer, FALSE, FALSE, FALSE, 0)
       /\ mode' = "any"
       /\ UNCHANGED <<head, layers, tags, blobs, workdir, inState, now, captured,
                      batch, before, kits, currentLayer, tmp>>

\* checkpoint(name): tag(name || `checkpoint-${timestamp}`) on head
AdapterCheckpoint(name) ==
  /\ Tag(IF name # Null THEN name ELSE StampedName(now), Null)
  /\ UNCHANGED currentLayer

\* listCheckpoints(): the tags whose name starts with 'checkpoint-'
ListCheckpoints(tg) ==
  [n \in {m \in DOMAIN tg : IsPrefix(CheckpointPrefix, m)} |-> tg[n]]

\* restoreCheckpoint(name): throws unless listCheckpoints() has the name,
\* else restore(its hash)
AdapterRestoreCheckpoint(name) ==
  IF name \notin DOMAIN ListCheckpoints(tags)
  THEN /\ ret' = Threw("restoreCheckpoint", "CheckpointNotFound", FALSE)
       /\ mode' = "any"
       /\ UNCHANGED <<head, layers, tags, blobs, workdir, inState, now, captured,
                      batch, before, kits, currentLayer, tmp>>
  ELSE AdapterRestore(ListCheckpoints(tags)[name])

\* ======================================================================
\* the callers
\* ======================================================================
\* refs worth passing: nothing, the tag names, every prefix of a recorded
\* hash, and a string that is neither
Prefixes(h) == {SubSeq(h, 1, n) : n \in 1..Len(h)}
Refs == {Null} \cup TagNames \cup {<<7>>}
        \cup UNION {Prefixes(layers[i].hash) : i \in 1..Len(layers)}
\* the same without tag names and proper prefixes
HashRefs == {Null, <<7>>} \cup {layers[i].hash : i \in 1..Len(layers)}

DoRun ==
  \E cmd \in Instructions :
    Run(cmd, "none") /\ Len(layers') <= MaxLayers /\ UNCHANGED <<batch, before, currentLayer>>
DoExec     == \E cmd \in Instructions : Exec(cmd)
\* rebuild() and reset() called on the engine itself
DoRebuild == RebuildWorkdir /\ UNCHANGED currentLayer
DoReset == Reset /\ UNCHANGED currentLayer
DoCheckout == \E ref \in HashRefs : Checkout(ref) /\ UNCHANGED currentLayer
DoTag ==
  \E name \in TagNames, ref \in HashRefs \cup TagNames :
    Tag(name, ref) /\ UNCHANGED currentLayer

\* run and checkout on one store
Next ==
  \/ DoRun
  \/ DoCheckout

Spec == Init /\ [][Next]_vars

\* runs that may meet an I/O failure in the blob write or the index write
FaultInstructions == {"echo 1 > a", "echo 1 > b", "echo 2 > a; exit 1"}
Orphans == {h \in DOMAIN blobs : \A i \in 1..Len(layers) : layers[i].hash # h}
DoRunFault ==
  \E cmd \in FaultInstructions, fault \in Faults :
    /\ fault = "commit" => Cardinality(Orphans) < MaxOrphans
    /\ Run(cmd, fault)
    /\ Len(layers') <= MaxLayers
    /\ UNCHANGED <<batch, before, currentLayer>>

NextFault ==
  \/ DoRunFault
  \/ DoCheckout

SpecFault == Init /\ [][NextFault]_vars

\* runs, tags and checkouts by tag name, hash prefix and hash
RefInstructions == {"echo 1 > a", "echo 2 > a", "echo 1 > b"}
DoRunRef ==
  \E cmd \in RefInstructions :
    Run(cmd, "none") /\ Len(layers') <= MaxLayers /\ UNCHANGED <<batch, before, currentLayer>>
DoCheckoutRef == \E ref \in Refs : Checkout(ref) /\ UNCHANGED currentLayer

NextRef ==
  \/ DoRunRef
  \/ DoTag
  \/ DoCheckoutRef

SpecRef == Init /\ [][NextRef]_vars

\* runs, execs that dirty or empty the workdir, and rebuilds
WorkInstructions == {"echo 1 > a", "echo 2 > a", "rm -f a"}
ExecInstructions == {"echo 1 > b", "echo 2 > a; exit 1", Wipe}
DoRunWork ==
  \E cmd \in WorkInstructions :
    Run(cmd, "none") /\ Len(layers') <= MaxChain /\ UNCHANGED <<batch, before, currentLayer>>
DoExecWork == \E cmd \in ExecInstructions : Exec(cmd)

NextWork ==
  \/ DoRunWork
  \/ DoExecWork
  \/ DoRebuild

SpecWork == Init /\ [][NextWork]_vars

\* batch() calls, one after the other
BatchInstructions == {"echo 1 > a", "rm -f a", "exit 1"}
BatchLists == UNION {[1..n -> BatchInstructions] : n \in 0..MaxBatch}
DoBatch == \E list \in BatchLists : Batch(list) /\ Len(layers') <= MaxChain

NextBatch ==
  \/ DoBatch
  \/ BatchNext /\ Len(layers') <= MaxChain

SpecBatch == Init /\ [][NextBatch]_vars

\* runs, tags and resets, for a workdir under stateDir and for one elsewhere
ResetInstructions == {"echo 1 > a", "echo 1 > b"}
DoRunReset ==
  \E cmd \in ResetInstructions :
    Run(cmd, "none") /\ Len(layers') <= MaxLayers /\ UNCHANGED <<batch, before, currentLayer>>

NextReset ==
  \/ DoRunReset
  \/ DoTag
  \/ DoReset

SpecReset == InitAnyWorkdir /\ [][NextReset]_vars

\* runs on a fresh store, a reset, and the same runs again, while time passes
ReplayInstructions == {"echo 1 > a", "echo 2 > a", "echo 1 > b"}
DoRunReplay ==
  \E cmd \in ReplayInstructions :
    Run(cmd, "none") /\ Len(layers') <= MaxLayers /\ UNCHANGED <<batch, before, currentLayer>>

NextReplay ==
  \/ DoRunReplay
  \/ DoReset
  \/ Tick

SpecReplay == Init /\ [][NextReplay]_vars

\* runs, edits of the workdir by hand, and status
StatusInstructions == {"echo 1 > a", "echo 2 > a", "rm -f a"}
EditInstructions == {"echo 1 > b", "echo 2 > a", "rm -f a"}
DoRunStatus ==
  \E cmd \in StatusInstructions :
    Run(cmd, "none") /\ Len(layers') <= MaxLayers /\ UNCHANGED <<batch, before, currentLayer>>
DoEdit == \E cmd \in EditInstructions : Exec(cmd)

NextStatus ==
  \/ DoRunStatus
  \/ DoEdit
  \/ Status

SpecStatus == Init /\ [][NextStatus]_vars

\* ----------------------------------------------------------------------
\* runs and diffs between layers named by hash, or left out
\* ----------------------------------------------------------------------
DiffInstructions == {"echo 1 > a", "echo 2 > a", "echo 1 > b", "rm -f a"}
DoRunDiff ==
  \E cmd \in DiffInstructions :
    Run(cmd, "none") /\ Len(layers') <= MaxLayers /\ UNCHANGED <<batch, before, currentLayer>>
DoDiff == \E fromRef \in HashRefs, toRef \in HashRefs : DiffLayers(fromRef, toRef)

NextDiff ==
  \/ DoRunDiff
  \/ DoDiff

SpecDiff == Init /\ [][NextDiff]_vars

\* ----------------------------------------------------------------------
\* every operation of the engine on one store, one call after another
\* ----------------------------------------------------------------------
StoreInstructions == {"echo 1 > a", "rm -f a"}
StoreEdits == {"echo 2 > a"}
DoRunStore ==
  \E cmd \in StoreInstructions :
    Run(cmd, "none") /\ Len(layers') <= MaxLayers /\ UNCHANGED <<batch, before, currentLayer>>
DoExecStore == \E cmd \in StoreEdits : Exec(cmd)
DoTagStore == \E ref \in HashRefs : Tag(<<9>>, ref) /\ UNCHANGED currentLayer

NextStore ==
  \/ DoRunStore
  \/ DoExecStore
  \/ DoCheckout
  \/ DoRebuild
  \/ DoTagStore
  \/ Status
  \/ DoDiff
  \/ DoReset

SpecStore == Init /\ [][NextStore]_vars

\* ----------------------------------------------------------------------
\* two instances on one stateDir, their runs interleaved step by step
\* ----------------------------------------------------------------------
KitInstructions == {"echo 1 > a", "echo 1 > b"}
DoConstruct == \E k \in Kits : Construct(k)
DoRunBegin == \E k \in Kits, cmd \in KitInstructions : RunBegin(k, cmd)
DoRunRestore == \E k \in Kits : RunRestore(k)
DoRunExec == \E k \in Kits : RunExec(k)
DoRunSnap == \E k \in Kits : RunSnap(k)
DoRunSave == \E k \in Kits : RunSave(k) /\ Len(layers') <= MaxLayers

NextKits ==
  \/ DoConstruct
  \/ DoRunBegin
  \/ DoRunRestore
  \/ DoRunExec
  \/ DoRunSnap
  \/ DoRunSave

SpecKits == Init /\ [][NextKits]_vars

\* ----------------------------------------------------------------------
\* one adapter over one engine, one call after another
\* ----------------------------------------------------------------------
AdapterInstructions == {"echo 1 > a", "echo 2 > a"}
CheckpointNames == {<<9>>, CheckpointPrefix \o <<1>>}
DoAdapterExecute ==
  \E instruction \in AdapterInstructions, noCommit \in BOOLEAN :
    AdapterExecute(instruction, noCommit) /\ Len(layers') <= MaxLayers
DoAdapterRestore == \E layerRef \in HashRefs : AdapterRestore(layerRef)
DoAdapterImport == \E exportedLayer \in HashRefs : AdapterImport(exportedLayer)
DoAdapterCheckpoint == \E name \in CheckpointNames \cup {Null} : AdapterCheckpoint(name)
DoAdapterRestoreCheckpoint ==
  \E name \in CheckpointNames \cup {StampedName(now)} : AdapterRestoreCheckpoint(name)

NextAdapter ==
  \/ AdapterInitialize
  \/ DoAdapterExecute
  \/ DoAdapterRestore
  \/ AdapterRebuild
  \/ AdapterReset
  \/ DoAdapterImport

SpecAdapter == Init /\ [][NextAdapter]_vars

\* the adapter's checkpoints between executions
NextCheckpoint ==
  \/ DoAdapterExecute
  \/ DoAdapterCheckpoint
  \/ DoAdapterRestoreCheckpoint

SpecCheckpoint == Init /\ [][NextCheckpoint]_vars

\* ----------------------------------------------------------------------
\* runs, checkouts and status calls whose tar.extract may throw
\* ----------------------------------------------------------------------
ScratchInstructions == {"echo 1 > a", "echo 1 > b"}
DoRunScratch ==
  \E cmd \in ScratchInstructions :
    Run(cmd, "none") /\ Len(layers') <= MaxLayers
                     /\ UNCHANGED <<batch, before, currentLayer>>
DoRunCachedThrows == \E cmd \in ScratchInstructions : RunCachedThrows(cmd)
DoCheckoutThrows ==
  \E ref \in HashRefs, n \in 1..MaxLayers : CheckoutThrows(ref, n)
DoStatusThrows == \E n \in 1..MaxLayers : StatusThrows(n)

NextScratch ==
  \/ DoRunScratch
  \/ DoCheckout
  \/ DoRunCachedThrows
  \/ DoCheckoutThrows
  \/ DoStatusThrows

SpecScratch == Init /\ [][NextScratch]_vars

\* ======================================================================
\* properties
\* ======================================================================
\* the records of the index with a given instruction and parent
Recorded(cmd, parent) ==
  {i \in 1..Len(layers) : layers[i].instruction = cmd /\ layers[i].parent = parent}

\* C1: whenever the index holds a layer recorded with instruction I and
\* parent equal to the current head (null for an empty history), run(I)
\* returns cached = true with that layer's hash and spawns no subprocess.
C1_CacheHit ==
  [][\A cmd \in Instructions :
       (Run(cmd, "none") /\ Recorded(cmd, head) # {})
         => /\ ret'.status = "ok"
            /\ ret'.cached
            /\ ~ret'.spawned
            /\ \A i \in Recorded(cmd, head) : ret'.hash = layers[i].hash]_vars

\* a run came back from the cache with the hash of a layer whose parent is
\* the head, after head had been moved back by a checkout
C1_Witness ==
  /\ ret.op = "run" /\ ret.cached /\ ~ret.spawned
  /\ \E i \in 1..Len(layers) : layers[i].hash = ret.hash /\ layers[i].parent = head
  /\ head # Null

\* C3: a run that is a cache hit changes only the workdir; head, the layer
\* list, the tags and the blob store are the same before and after.
C3_HitFrame ==
  [][((\E cmd \in Instructions : Run(cmd, "none")) /\ ret'.op = "run" /\ ret'.cached)
       => UNCHANGED <<head, layers, tags, blobs>>]_vars

\* a cache hit materialised a layer other than head and head stayed behind
C3_Witness ==
  /\ ret.op = "run" /\ ret.cached
  /\ ret.hash # head
  /\ ret.hash \in DOMAIN blobs
  /\ workdir = Extract(workdir, blobs[ret.hash])

\* C2: after checkout(parent), a run(I) that is a cache hit on layer L leaves
\* the workdir state (paths and fingerprints) equal to the workdir state
\* captured when L was created, also when L's instruction deleted files.
C2_HitRestoresCaptured ==
  [][\A cmd \in Instructions :
       (ret.op = "checkout" /\ ret.status = "ok" /\ Run(cmd, "none") /\ ret'.cached)
         => \A i \in Recorded(cmd, head) : State(workdir') = State(captured[i])]_vars

\* the workdir state of the layer head names, as it was when that layer was
\* committed; the empty state for an empty history
ParentState ==
  IF head = Null \/ ByHash(layers, head) = 0 THEN State(EmptyDir)
  ELSE State(captured[ByHash(layers, head)])

\* C5: a run(I) that misses the cache and whose instruction leaves the
\* workdir different from the parent state appends exactly one record
\* {hash, I, head-before}, stores its blob, moves head to the returned hash
\* and returns cached = false without the empty flag.
C5_MissCommits ==
  [][\A cmd \in Instructions :
       (/\ Run(cmd, "none")
        /\ Recorded(cmd, head) = {}
        /\ ExecResolves(cmd, workdir, now)
        /\ State(Sh(cmd, workdir, now).w) # ParentState)
         => /\ ret'.status = "ok" /\ ~ret'.cached /\ ~ret'.empty
            /\ layers' = Append(layers, [hash |-> ret'.hash, instruction |-> cmd,
                                         parent |-> head])
            /\ ret'.hash \in DOMAIN blobs'
            /\ head' = ret'.hash]_vars

\* C6: in a sequence of run calls on a fresh store, a run whose instruction
\* changes nothing in the workdir returns cached = false, empty = true and
\* hash = head, appends no layer and leaves head alone, also when an earlier
\* layer of the chain recorded a deletion.
C6_NoChangeIsEmpty ==
  [][\A cmd \in Instructions :
       (/\ mode \in {"pure", "runs"}
        /\ Run(cmd, "none")
        /\ ExecResolves(cmd, workdir, now)
        /\ Sh(cmd, workdir, now).w = workdir)
         => /\ ret'.status = "ok" /\ ~ret'.cached /\ ret'.empty
            /\ ret'.hash = head
            /\ layers' = layers
            /\ head' = head]_vars

\* C7: after k consecutive runs on a fresh store that each created a layer,
\* history() is exactly those k layers in run order: the first has parent
\* null, each later one has the preceding hash as parent, the last is head.
C7_HistoryIsRuns ==
  mode = "pure" =>
    /\ ~AncestryLoops(layers, head)
    /\ Ancestry(layers, head) = layers
    /\ \A i \in 1..Len(layers) :
         layers[i].parent = IF i = 1 THEN Null ELSE layers[i - 1].hash
    /\ head = IF layers = <<>> THEN Null ELSE layers[Len(layers)].hash

\* the hashes met when following parent pointers from head
ChainHashes ==
  LET w == Walk(layers, head, Len(layers))
  IN {w[i].hash : i \in 1..Len(w)}
LayerHashes == {layers[i].hash : i \in 1..Len(layers)}

\* what an empty directory holds after the blobs of chain[1..n] were applied
\* in order: per path the entry of the last blob that carries the path
Applied(chain, n) ==
  [p \in Paths |->
     LET js == {j \in 1..n : Get(blobs, chain[j].hash) # Null
                              /\ Get(blobs, chain[j].hash)[p] # Absent}
     IN IF js = {} THEN Absent
        ELSE blobs[chain[CHOOSE j \in js : \A k \in js : k <= j].hash][p]]

\* C8: checkout(ref) of a layer on the current chain sets head to the
\* resolved hash, keeps the layer list and the tags, and leaves the workdir
\* as an empty directory with the blobs of the chain prefix root..target
\* applied in order, so that paths only later layers introduce are absent.
C8_CheckoutOnChain ==
  [][\A ref \in Refs :
       LET hash == Resolve(layers, tags, ref)
       IN (Checkout(ref) /\ hash \in ChainHashes)
            => /\ ret'.status = "ok"
               /\ head' = hash
               /\ layers' = layers /\ tags' = tags
               /\ LET chain == Ancestry(layers, head)
                      n == CHOOSE n \in 1..Len(chain) :
                             /\ chain[n].hash = hash
                             /\ \A m \in 1..(n - 1) : chain[m].hash # hash
                  IN workdir' = Applied(chain, n)]_vars

\* C9: checkout(ref) fails with UnresolvedRef when ref matches no tag, hash
\* prefix or hash, and with LayerNotOnChain when the resolved layer exists
\* but is not on the chain from head; either way head, layers, tags, blobs
\* and workdir stay as they were.
C9_CheckoutFails ==
  [][\A ref \in Refs \ {Null} :
       LET hash == Resolve(layers, tags, ref)
       IN Checkout(ref) =>
            /\ hash = Unresolved =>
                 /\ ret'.status = "UnresolvedRef"
                 /\ UNCHANGED <<head, layers, tags, blobs, workdir>>
            /\ (hash \in LayerHashes /\ hash \notin ChainHashes) =>
                 /\ ret'.status = "LayerNotOnChain"
                 /\ UNCHANGED <<head, layers, tags, blobs, workdir>>]_vars

\* C4 as stated: when the subprocess of run(I) exits non-zero or a later
\* phase of run fails, run fails with an error and head, the layer list, the
\* tags and the blob store are exactly as before the call.
C4_FailedRunFrame ==
  [][/\ \A cmd \in FaultInstructions :
          (Run(cmd, "none") /\ Recorded(cmd, head) = {} /\ ~Sh(cmd, workdir, now).ok)
            => ret'.status = "CommandFailed"
     /\ (ret'.op = "run" /\ ret'.status \in {"CommandFailed", "IoError"})
          => UNCHANGED <<head, layers, tags, blobs>>]_vars

\* C4 as amended: a failed run leaves head, the layer list and the tags as
\* they were, so that no partial layer is committed; the blob store is as
\* before too, unless the index write failed after the blob write, when it
\* holds the one blob of the uncommitted layer in addition.
C4_FailedRunIndexFrame ==
  [][/\ \A cmd \in FaultInstructions :
          (Run(cmd, "none") /\ Recorded(cmd, head) = {} /\ ~Sh(cmd, workdir, now).ok)
            => ret'.status = "CommandFailed"
     /\ (ret'.op = "run" /\ ret'.status \in {"CommandFailed", "IoError"})
          => /\ UNCHANGED <<head, layers, tags>>
             /\ DOMAIN blobs \subseteq DOMAIN blobs'
             /\ \A h \in DOMAIN blobs : blobs'[h] = blobs[h]
             /\ (blobs' # blobs) =>
                  /\ ret'.status = "IoError"
                  /\ Cardinality(DOMAIN blobs' \ DOMAIN blobs) = 1]_vars

\* a run failed in the index write and left a blob that no layer names,
\* next to the layers committed before it
C4_Witness ==
  /\ ret.op = "run" /\ ret.status = "IoError"
  /\ layers # <<>>
  /\ \E h \in DOMAIN blobs : h \notin LayerHashes

\* every non-empty string of at most HashLen characters over the digits of
\* the hashes and one more character
RefChars == 0..(NC * Cardinality(Times)) \cup {9}
AllRefs == UNION {[1..n -> RefChars] : n \in 1..HashLen}

\* resolution as the documentation words it, scanning the list front to back
RECURSIVE FirstWith(_, _, _)
FirstWith(ls, ref, exact) ==
  IF ls = <<>> THEN Unresolved
  ELSE LET h == Head(ls).hash
       IN IF (exact /\ h = ref) \/ (~exact /\ Len(ref) <= Len(h)
                                     /\ \A k \in 1..Len(ref) : h[k] = ref[k])
          THEN h
          ELSE FirstWith(Tail(ls), ref, exact)

DocResolve(ref) ==
  IF \E t \in DOMAIN tags : t = ref
  THEN tags[ref]
  ELSE IF FirstWith(layers, ref, FALSE) # Unresolved
  THEN FirstWith(layers, ref, FALSE)
  ELSE FirstWith(layers, ref, TRUE)

\* C10: resolve(ref) is the tag's hash when ref is a tag name, else the hash
\* of the first layer in append order whose hash starts with ref, else the
\* layer whose hash equals ref, else the failure UnresolvedRef; for every
\* ref and every state of the index.
C10_ResolveOrder ==
  \A ref \in AllRefs : Resolve(layers, tags, ref) = DocResolve(ref)

\* a tag name that is also the prefix of another layer's hash resolves to the
\* tag's layer, a prefix of two hashes to the earlier record, and some string
\* to nothing
C10_Witness ==
  /\ \E t \in DOMAIN tags :
       /\ \E i \in 1..Len(layers) : IsPrefix(t, layers[i].hash) /\ layers[i].hash # tags[t]
       /\ Resolve(layers, tags, t) = tags[t]
  /\ \E ref \in AllRefs, i, j \in 1..Len(layers) :
       /\ i < j /\ layers[i].hash # layers[j].hash
       /\ IsPrefix(ref, layers[i].hash) /\ IsPrefix(ref, layers[j].hash)
       /\ ref \notin DOMAIN tags
       /\ Resolve(layers, tags, ref) = layers[i].hash
  /\ \E ref \in AllRefs : Resolve(layers, tags, ref) = Unresolved
  /\ ret.op = "checkout"


Matches(p) == {h \in LayerHashes : IsPrefix(p, h)}

\* C12 as stated: in every reachable state, whatever tags are defined, every
\* recorded hash h has resolve(h) = h and every prefix p of h that matches
\* exactly one recorded layer has resolve(p) = h.
C12_HashAndPrefix ==
  \A h \in LayerHashes :
    /\ Resolve(layers, tags, h) = h
    /\ \A p \in Prefixes(h) : Matches(p) = {h} => Resolve(layers, tags, p) = h

\* C12 as amended: the same for every hash and every prefix that is not the
\* name of a tag; a tag name resolves to the tag's hash, also when it is a
\* prefix of another layer's hash.
C12_HashAndPrefixNoTag ==
  \A h \in LayerHashes :
    /\ h \notin DOMAIN tags => Resolve(layers, tags, h) = h
    /\ \A p \in Prefixes(h) \ DOMAIN tags :
         Matches(p) = {h} => Resolve(layers, tags, p) = h

\* three layers and a tag are recorded; a proper prefix that is no tag name
\* matches one hash only and resolves to it, while a tag name that is a
\* prefix of one hash only resolves to another layer
C12_Witness ==
  /\ Cardinality(LayerHashes) = 3
  /\ \E h \in LayerHashes :
       \E p \in Prefixes(h) \ DOMAIN tags :
         /\ Len(p) < Len(h) /\ Matches(p) = {h}
         /\ Resolve(layers, tags, p) = h
  /\ \E h \in LayerHashes, t \in DOMAIN tags :
       /\ Matches(t) = {h}
       /\ Resolve(layers, tags, t) # h


\* C13: resolve(p) for a prefix p that is no tag name and matches the hashes
\* of two or more distinct recorded layers fails with UnresolvedRef instead
\* of returning one of them.
C13_AmbiguousPrefixFails ==
  \A p \in AllRefs \ DOMAIN tags :
    Cardinality(Matches(p)) >= 2 => Resolve(layers, tags, p) = Unresolved


\* C14: exec(instruction), whether the subprocess succeeds or fails, leaves
\* head, the layer list, the tags and the blob store unchanged; only the
\* workdir can differ afterwards.
C14_ExecFrame ==
  [][(\E cmd \in ExecInstructions : Exec(cmd))
       => /\ UNCHANGED <<head, layers, tags, blobs>>
          /\ ret'.op = "exec"]_vars

\* an exec failed after it had rewritten a file of the workdir, on a store
\* that holds layers
C14_Witness ==
  /\ ret.op = "exec" /\ ret.status = "CommandFailed"
  /\ head # Null /\ Len(layers) >= 2
  /\ State(workdir) # State(captured[Len(layers)])


\* the results of a batch that committed a layer
Committed(results) ==
  {i \in 1..Len(results) : ~results[i].cached /\ ~results[i].empty}

\* what a step of batch() does: the k results pushed before it, the run of
\* instruction k + 1, and then one more result, or the failure of that run
\* with the index as the earlier runs left it
BatchStepInOrder ==
  LET call == batch.status # "running"
      k    == IF call THEN 0 ELSE Len(batch.results)
      done == IF call THEN <<>> ELSE batch.results
  IN IF batch'.list = <<>>
     THEN /\ batch'.status = "returned" /\ batch'.results = <<>>
          /\ UNCHANGED <<head, layers, tags, blobs, workdir>>
     ELSE
     /\ ~call => batch'.list = batch.list
     /\ Run(batch'.list[k + 1], "none")
     /\ batch'.status \in {"running", "returned"}
          => /\ ret'.status = "ok"
             /\ batch'.results = Append(done, ret')
     /\ batch'.status = "returned" <=> Len(batch'.results) = Len(batch'.list)
     /\ batch'.status \in {"failed", "diverged"}
          => /\ batch'.results = done
             /\ UNCHANGED <<head, layers, tags, blobs>>
             /\ \A i \in Committed(done) :
                  /\ \E j \in 1..Len(layers') : layers'[j].hash = done[i].hash
                  /\ (\A j \in Committed(done) : j <= i) => head' = done[i].hash
     /\ batch'.status = "failed" => ret'.status = "CommandFailed"
     /\ batch.status = "failed" => ~BatchNext

\* C15: batch(list) performs run on the instructions in list order, each run
\* with its commit finished before the next begins, and returns one result
\* per instruction in that order; when an instruction fails, batch fails, no
\* later instruction is executed and the layers the earlier instructions
\* committed stay in the index with head at the last of them.
C15_BatchInOrder ==
  [][/\ BatchStepInOrder
     /\ batch'.status \in {"running", "returned", "failed"}]_vars


\* the instructions that create or rewrite a file and remove nothing
AddOnly == {"echo 1 > a", "echo 2 > a", "echo 1 > b"}

\* a history of runs in which every layer was made by such an instruction
\* and holds every path the layer before it held
AddOnlyHistory ==
  /\ \A i \in 1..Len(layers) : layers[i].instruction \in AddOnly
  /\ \A i \in 2..Len(layers) :
       /\ layers[i].parent = layers[i - 1].hash
       /\ \A p \in Paths : captured[i - 1][p] # Absent => captured[i][p] # Absent
  /\ layers # <<>> => head = layers[Len(layers)].hash

\* C16: for a history built by runs whose instructions only add or modify
\* paths, and whatever was done to the workdir afterwards, rebuild() leaves
\* the workdir state equal to the state right after the run that created
\* head and returns the number of layers on the chain.
C16_RebuildRestoresHead ==
  [][(RebuildWorkdir /\ AddOnlyHistory)
       => /\ ret'.status = "ok"
          /\ ret'.n = Len(layers)
          /\ State(workdir') = IF layers = <<>> THEN State(EmptyDir)
                               ELSE State(captured[Len(layers)])]_vars


\* layer i was captured without path p, which its parent's state held, and
\* no later layer was captured with p
DeletedFor(p, i) ==
  /\ i \in 2..Len(layers)
  /\ layers[i].parent = layers[i - 1].hash
  /\ captured[i - 1][p] # Absent
  /\ \A j \in i..Len(layers) : captured[j][p] = Absent

\* C17: if a layer on the chain was created by an instruction that deleted
\* path p and no later layer on the chain re-creates p, then after rebuild()
\* p is absent from the workdir.
C17_RebuildDeletes ==
  [][RebuildWorkdir
       => \A p \in Paths :
            (\E i \in 1..Len(layers) : DeletedFor(p, i)) => workdir'[p] = Absent]_vars


\* C18: rebuild() is idempotent and index-preserving: a rebuild() that
\* follows a rebuild() leaves the workdir state as the first one left it,
\* and no rebuild changes head, the layer list, the tags or the blobs.
C18_RebuildIdempotent ==
  [][RebuildWorkdir
       => /\ UNCHANGED <<head, layers, tags, blobs>>
          /\ ret.op = "rebuild" => /\ State(workdir') = State(workdir)
                                   /\ ret' = ret]_vars

\* a rebuild of a chain of several layers returned and left files in the
\* workdir, other than those the last run had left
C18_Witness ==
  /\ ret.op = "rebuild" /\ ret.status = "ok" /\ ret.n >= 2
  /\ ~IsEmptyDir(workdir)
  /\ workdir = Rebuild(blobs, Ancestry(layers, head))
  /\ State(workdir) # State(captured[Len(layers)])


\* C19: after reset(), wherever the workdir is configured (under stateDir
\* or elsewhere), head is null, history() is empty, there are no tags and no
\* blobs, and the workdir exists and is empty.
C19_ResetClearsAll ==
  [][Reset
       => /\ head' = Null
          /\ ~AncestryLoops(layers', head') /\ Ancestry(layers', head') = <<>>
          /\ tags' = <<>>
          /\ blobs' = <<>>
          /\ IsEmptyDir(workdir')]_vars


\* the instructions of a layer list, in order
InstructionsOf(ls) == [i \in 1..Len(ls) |-> ls[i].instruction]

\* C20: for instructions I1..In run on a fresh store and producing chain C, a
\* reset() followed by the same runs produces a chain with the same hashes,
\* instructions and parents in the same order as C.
C20_ReplayIsIdentical ==
  (/\ before.pure /\ mode = "pure"
   /\ InstructionsOf(layers) = InstructionsOf(before.layers))
    => layers = before.layers


\* the paths a state holds
PathsOf(st) == {p \in Paths : st[p] # Absent}

\* the workdir state and the state of head as the chain's archives give it
WorkState == State(workdir)
HeadState == IF head = Null THEN State(EmptyDir)
             ELSE State(Rebuild(blobs, Walk(layers, head, Len(layers))))

\* what status() reports when it returns: the workdir state against the
\* reconstructed state of head
StatusAsDocumented ==
  /\ ret'.report.added = PathsOf(WorkState) \ PathsOf(HeadState)
  /\ ret'.report.deleted = PathsOf(HeadState) \ PathsOf(WorkState)
  /\ ret'.report.modified =
       {p \in PathsOf(WorkState) \cap PathsOf(HeadState) : WorkState[p] # HeadState[p]}
  /\ ret'.report.clean <=> (/\ ret'.report.added = {}
                            /\ ret'.report.modified = {}
                            /\ ret'.report.deleted = {})

\* C21: status() compares the workdir state W with the reconstructed state H
\* of head (empty without a head): added = paths of W not in H, modified =
\* paths of both whose fingerprints differ, deleted = paths of H not in W,
\* clean exactly when all three are empty; status changes neither the index
\* nor the workdir.
C21_StatusReport ==
  [][Status => /\ UNCHANGED <<head, layers, tags, blobs, workdir>>
               /\ ret'.status = "ok"
               /\ StatusAsDocumented]_vars


\* the previous call was a run that committed a new layer
NewLayerReturned ==
  /\ ret.op = "run" /\ ret.status = "ok"
  /\ ~ret.cached /\ ~ret.empty

\* C22: status() called immediately after a run that returned a newly
\* created layer reports clean, with added, modified and deleted all empty,
\* whatever the instruction added, modified or deleted.
C22_CleanAfterRun ==
  [][(Status /\ NewLayerReturned)
       => /\ ret'.status = "ok"
          /\ ret'.report.clean
          /\ ret'.report.added = {}
          /\ ret'.report.modified = {}
          /\ ret'.report.deleted = {}]_vars


\* the state of the layer a hash names as the chain's archives give it; the
\* empty state for no hash
LayerState(hash) ==
  IF hash = Null THEN State(EmptyDir)
  ELSE State(Rebuild(blobs, Walk(layers, hash, Len(layers))))

\* what diff reports between the states F and T when it returns
DiffAsDocumented(F, T) ==
  /\ ret'.report.added = PathsOf(T) \ PathsOf(F)
  /\ ret'.report.deleted = PathsOf(F) \ PathsOf(T)
  /\ ret'.report.modified = {p \in PathsOf(F) \cap PathsOf(T) : F[p] # T[p]}

\* C23: diff(from, to) reports added = paths only in the state of to,
\* modified = paths in both with different fingerprints, deleted = paths
\* only in the state of from; a from left out means the empty state and a to
\* left out means head, so diff() reports every path of the head state as
\* added.
C23_DiffReport ==
  [][\A fromRef \in LayerHashes \cup {Null}, toRef \in LayerHashes \cup {Null} :
       DiffLayers(fromRef, toRef)
         => /\ ret'.status = "ok"
            /\ DiffAsDocumented(LayerState(fromRef),
                                LayerState(IF toRef = Null THEN head ELSE toRef))
            /\ (fromRef = Null /\ toRef = Null)
                 => /\ ret'.report.added = PathsOf(HeadState)
                    /\ ret'.report.modified = {}
                    /\ ret'.report.deleted = {}]_vars


\* what tag(name, ref) has to bind name to: head without a ref, the layer
\* the ref resolves to otherwise
TagTarget(ref) == IF ref = Null THEN head ELSE Resolve(layers, tags, ref)

\* C24: tag(name) binds name to the current head and tag(name, ref) binds
\* name to resolve(ref); an earlier binding of name is replaced, and head,
\* the layer list and every other tag stay as they were; tag(name) on an
\* empty history fails with NothingToTag and changes nothing.
C24_TagBinds ==
  [][ret'.op = "tag" =>
       \A name \in TagNames, ref \in HashRefs \cup TagNames :
         Tag(name, ref)
           => /\ UNCHANGED <<head, layers, blobs, workdir>>
              /\ TagTarget(ref) \notin {Null, Unresolved}
                   => /\ ret'.status = "ok"
                      /\ DOMAIN tags' = DOMAIN tags \cup {name}
                      /\ tags'[name] = TagTarget(ref)
                      /\ \A u \in DOMAIN tags \ {name} : tags'[u] = tags[u]
              /\ (ref = Null /\ layers = <<>>)
                   => /\ ret'.status = "NothingToTag"
                      /\ UNCHANGED tags
              /\ ret'.status # "ok" => UNCHANGED tags]_vars

\* a tag call with a ref bound a name to a layer that is not head while
\* another name stays bound to a different layer
C24_Witness ==
  /\ ret.op = "tag" /\ ret.status = "ok" /\ ret.hash # head
  /\ \E name \in DOMAIN tags, u \in DOMAIN tags :
       /\ name # u
       /\ tags[name] = ret.hash
       /\ tags[u] # tags[name]


\* the store holds the one layer that the first run(cmd) of a fresh store
\* created, and checkout of that layer's hash has just returned
FirstLayerCheckedOut(cmd) ==
  /\ Len(layers) = 1
  /\ layers[1].instruction = cmd /\ layers[1].parent = Null
  /\ ret.op = "checkout" /\ ret.status = "ok" /\ ret.hash = layers[1].hash

\* C25: on a fresh store, after r = run(I) has created the first layer and
\* checkout(r.hash) has been performed, a second run(I) returns cached = true
\* with hash equal to r.hash.
C25_HitAfterCheckout ==
  [][\A cmd \in Instructions :
       (FirstLayerCheckedOut(cmd) /\ Run(cmd, "none"))
         => /\ ret'.status = "ok"
            /\ ret'.cached
            /\ ret'.hash = layers[1].hash]_vars


\* C26: once a layer record is in the index, its hash, instruction and
\* parent never change and the bytes stored under its hash never change,
\* across every later run, exec, checkout, rebuild, tag, status and diff;
\* only reset removes layers.
C26_LayersImmutable ==
  [][ret'.op # "reset"
       => /\ Len(layers') >= Len(layers)
          /\ \A i \in 1..Len(layers) :
               /\ layers'[i] = layers[i]
               /\ Get(blobs', layers[i].hash) = Get(blobs, layers[i].hash)]_vars

\* a run recorded a second layer under a hash the index already held, and
\* the earlier record and the blob are still there
C26_Witness ==
  /\ ret.op = "run" /\ ret.status = "ok" /\ ~ret.cached /\ ~ret.empty
  /\ Len(layers) >= 2
  /\ \E i \in 1..(Len(layers) - 1) : layers[i].hash = layers[Len(layers)].hash
  /\ ret.hash \in DOMAIN blobs


\* head, the parent of a record or the value of a tag names a recorded layer
Recorded_Hash(h) == \E i \in 1..Len(layers) : layers[i].hash = h

\* C27: in every reachable state head is null or the hash of a layer in the
\* index, and null only when the layer list is empty; every layer's parent
\* is null or the hash of a layer in the index; every tag's value is the
\* hash of a layer in the index; and the chain ancestry() returns holds no
\* layer whose parent is missing.
C27_ReferentialIntegrity ==
  /\ head = Null \/ Recorded_Hash(head)
  /\ head = Null => layers = <<>>
  /\ \A i \in 1..Len(layers) :
       layers[i].parent = Null \/ Recorded_Hash(layers[i].parent)
  /\ \A t \in DOMAIN tags : Recorded_Hash(tags[t])
  /\ ~AncestryLoops(layers, head)
       => LET chain == Ancestry(layers, head)
          IN \A i \in 1..Len(chain) :
               \/ chain[i].parent = Null
               \/ \E j \in 1..Len(chain) : chain[j].hash = chain[i].parent

\* head was moved back to a tagged layer below the last recorded one
C27_Witness ==
  /\ Len(layers) >= 2
  /\ head # layers[Len(layers)].hash
  /\ \E t \in DOMAIN tags : tags[t] = head
  /\ layers[Len(layers)].parent # Null
  /\ ~AncestryLoops(layers, head) /\ Len(Ancestry(layers, head)) >= 1


\* C28: a hash identifies one layer: the index holds at most one record per
\* hash, so the record inspect finds for a hash (the first in the list) and
\* the record ancestry and history use for it (the map keyed by hash) have
\* the same instruction and parent.
C28_HashIdentifiesLayer ==
  /\ \A i, j \in 1..Len(layers) : layers[i].hash = layers[j].hash => i = j
  /\ \A h \in LayerHashes :
       /\ Inspect(layers, tags, blobs, h).status = "ok"
            => /\ Inspect(layers, tags, blobs, h).instruction
                    = layers[ByHash(layers, h)].instruction
               /\ Inspect(layers, tags, blobs, h).parent
                    = layers[ByHash(layers, h)].parent


\* C29: under sequential use by one writer the index never holds two layer
\* records with the same (instruction, parent) pair, so the first match of
\* the cache lookup is the only match.
C29_OneRecordPerKey ==
  /\ \A i, j \in 1..Len(layers) :
       Key(layers[i].instruction, layers[i].parent)
         = Key(layers[j].instruction, layers[j].parent) => i = j
  /\ \A i \in 1..Len(layers) :
       Find(layers, layers[i].instruction, layers[i].parent) = layers[i]

\* a run was answered from the cache while the index holds two records of
\* the same instruction under different parents
C29_Witness ==
  /\ ret.op = "run" /\ ret.cached
  /\ \E i, j \in 1..Len(layers) :
       /\ i # j
       /\ layers[i].instruction = layers[j].instruction
       /\ layers[i].parent # layers[j].parent


\* the hash of an archive as run computes it for a layer with that parent:
\* over the archive alone for a root layer, over the archive followed by
\* the deleted list for any other
HashedFrom(buffer, parent) ==
  IF parent = Null THEN {Hash(buffer, 0)}
  ELSE {Hash(buffer, DeletedCode(deleted)) : deleted \in SUBSET Paths}

\* C30: in every reachable state, also between the blob write and the index
\* commit of a run that fails there, every layer record has a blob stored
\* under its hash, and that blob is the archive the hash was computed from
\* (alone for a root layer, followed by the deleted list otherwise).
C30_EveryLayerHasItsBlob ==
  \A i \in 1..Len(layers) :
    /\ layers[i].hash \in DOMAIN blobs
    /\ layers[i].hash \in HashedFrom(blobs[layers[i].hash], layers[i].parent)

\* a run failed between the blob write and the commit and left a blob
\* without a record, beside a recorded layer that is not the root
C30_Witness ==
  /\ ret.op = "run" /\ ret.status = "IoError"
  /\ Orphans # {}
  /\ \E i \in 1..Len(layers) :
       /\ layers[i].parent # Null
       /\ layers[i].hash \in DOMAIN blobs


\* the instances that are constructed and between two calls
IdleKits == {k \in Kits : kits[k].pc = "idle"}

\* C31: a second instance constructed on the same stateDir sees, between
\* the operations of the first, the same head and the same history as the
\* first, namely those of the index on disk: no instance keeps index state.
C31_SameView ==
  \A k1 \in IdleKits, k2 \in IdleKits :
    /\ HeadOf(k1) = HeadOf(k2)
    /\ HistoryOf(k1) = HistoryOf(k2)
    /\ HeadOf(k1) = head

\* both instances are between calls after each has committed a layer, the
\* second one after the first
C31_Witness ==
  /\ IdleKits = Kits
  /\ kits[1].returned # {} /\ kits[2].returned # {}
  /\ head \in kits[2].returned
  /\ ~AncestryLoops(layers, head) /\ Len(HistoryOf(1)) >= 2


\* the hashes of the layers some run of an instance returned as new and
\* that the index does not hold
LostLayers(k) == kits[k].returned \ LayerHashes

\* C32: with two instances writing to one stateDir there is an interleaving
\* of their index reads and writes after which a layer that a run returned
\* is missing from the index; the last writer wins, and the blob of the
\* missing layer stays in the blob store.
C32_LastWriterWins ==
  \A k \in Kits :
    /\ \A h \in kits[k].returned : h \in DOMAIN blobs
    /\ LostLayers(k) # {} => \E k2 \in Kits \ {k} : kits[k2].returned # {}

\* both instances have returned and the layer the first one's run returned
\* is not in the index, while its blob is in the blob store
C32_Witness ==
  /\ IdleKits = Kits
  /\ \E h \in LostLayers(1) : h \in DOMAIN blobs
  /\ ret.op = "run" /\ ret.status = "ok" /\ ret.hash \in kits[2].returned


\* the layer a hash names is on the chain from head
OnChain(hash) ==
  /\ ~AncestryLoops(layers, head)
  /\ \E i \in 1..Len(Ancestry(layers, head)) : Ancestry(layers, head)[i].hash = hash

\* C33: for every checkpoint name n, after checkpoint(n) has succeeded,
\* restoreCheckpoint(n) succeeds and moves head to the layer that was head
\* when the checkpoint was taken, provided that layer is still on the
\* chain.
C33_CheckpointRestores ==
  [][\A n \in CheckpointNames \cup {StampedName(now)} :
       (/\ n \in DOMAIN tags
        /\ OnChain(tags[n])
        /\ AdapterRestoreCheckpoint(n))
         => /\ ret'.status = "ok"
            /\ head' = tags[n]
            /\ currentLayer' = tags[n]]_vars


\* the paths an archive holds
PackedPaths(data) == {p \in Paths : data[p] # Absent}

\* the last call was a run answered from the cache
HitReturned == ret.op = "run" /\ ret.status = "ok" /\ ret.cached

\* the call is a run that commits a new layer
CommitsNewLayer ==
  /\ ret'.op = "run" /\ ret'.status = "ok" /\ ~ret'.cached /\ ~ret'.empty
  /\ Len(layers') = Len(layers) + 1

C35_AncestryTerminates ==
  /\ \A i \in 1..Len(layers) : layers[i].hash # layers[i].parent
  /\ ~AncestryLoops(layers, head)
  /\ \A h \in LayerHashes : ~AncestryToLoops(layers, h)


\* C36: when an operation that reconstructs a layer state or restores a
\* blob has returned or thrown, tar.extract failing part-way included, no
\* temporary tar file and no scratch directory of it is left under stateDir.
C36_NoTemporaryLeft == tmp = {}


\* C37: status() called immediately after a successful checkout(ref) or
\* rebuild() returns and reports clean = true, in every reachable state:
\* the workdir and the reconstructed head state come from the same chain of
\* blobs.
C37_CleanAfterCheckout ==
  [][(/\ ret.op \in {"checkout", "rebuild"}
      /\ ret.status = "ok"
      /\ ret'.op = "status")
     => (ret'.status = "ok" /\ ret'.report.clean)]_vars


\* status() has reported a clean workdir under a head that a checkout moved
\* below the newest layer, whose state is not that of the newest layer
C37_Witness ==
  /\ ret.op = "status" /\ ret.status = "ok" /\ ret.report.clean
  /\ Len(layers) >= 2
  /\ head = layers[1].hash
  /\ layers[Len(layers)].hash # head
  /\ ~IsEmptyDir(workdir)
  /\ State(workdir) = StateFromLayer(layers, blobs, head)


\* C38: history never branches without a checkout: when two run() calls on
\* one store overlap (the second reads head before the first commits), the
\* index still holds no two layers with the same parent, and every layer a
\* successful run returned as new is on the chain from head.
C38_NoBranching ==
  /\ \A i \in 1..Len(layers), j \in 1..Len(layers) :
       i # j => layers[i].parent # layers[j].parent
  /\ \A k \in Kits : \A h \in kits[k].returned : OnChain(h)


\* getHistory(): the positions of kit.history() marked isCurrent
IsCurrent(ls, hd, current) ==
  {i \in 1..Len(Ancestry(ls, hd)) : Ancestry(ls, hd)[i].hash = current}

\* C39: when an adapter operation (initialize, execute with any options,
\* restore, rebuild, reset, import) has completed, getCurrentState().layer
\* equals the engine's head, and getHistory() marks exactly the head layer
\* as isCurrent whenever the history is not empty.
C39_CurrentIsHead ==
  [][ret'.status = "ok"
     => /\ currentLayer' = head'
        /\ (~AncestryLoops(layers', head') /\ Ancestry(layers', head') # <<>>)
           => IsCurrent(layers', head', currentLayer')
                = {Len(Ancestry(layers', head'))}]_vars

====
